---- MODULE Spec2Model ----
(***************************************************************************)
(* State-machine model of the admission-list service of src/api.py: the    *)
(* staging dictionary, the /api/parse, /api/confirm, /api/cancel and       *)
(* /api/status handlers, the JSON files written under jsons/<university>/  *)
(* and the remote table fed by upload_to_supabase.                         *)
(* Spec serves the requests one after the other; SpecRerun restarts the    *)
(* service on a disk an earlier run left; SpecBatch sends it one page of   *)
(* any mix of lines; SpecConc serves confirms in concurrent threads;       *)
(* SpecScript runs campus_parser.py's process_campus_classification on an  *)
(* input file.  transform_data of upload_script.py is an operator.         *)
(*                                                                         *)
(* Text is modelled as sequences of whitespace-separated tokens: a course  *)
(* "Engenharia (I) REMANEJADO" is <<"Engenharia", "(I)", "REMANEJADO">>.   *)
(* Python's None, and a dictionary key that is absent (s.get(k) is None),  *)
(* are both NULL for a string and <<>> for a list or a text.  No handler   *)
(* ever writes an empty list to a file, so <<>> also stands for a file     *)
(* that does not exist.                                                    *)
(***************************************************************************)
EXTENDS Integers, Sequences, FiniteSets, TLC

VARIABLES
    staging,    \* api.py:46   job id -> job entry; the domain is the set of keys
    nextJob,    \* number of job ids handed out so far by uuid.uuid4()
    supabase,   \* api.py:32  TRUE when the remote client was created at start-up
    cities,     \* jsons/<university>/cities/<city>.json, <<>> when the file is absent
    chamadas,   \* jsons/<university>/chamadas/<city>/c<n>.json, <<>> when absent
    full,       \* jsons/<university>/chamada_<n>_full.json, <<>> when absent
    remote,     \* rows of the remote table master_calouros, keyed by inscricao
    last,       \* the last request served: endpoint, job id, HTTP status, remote outcome
    hist,       \* history: per job id, whether it was created, whether a confirm of
                \* it completed, whether a cancel removed it while it was pending
    merges,     \* history: per job id, how many times its local merge has run
    reqs,       \* the /api/confirm requests in flight when Flask serves each
                \* request in its own thread: position and local variables
    script      \* campus_parser.py run as a script: its input file, the list it
                \* returned, and the number of runs so far

vars == <<staging, nextJob, supabase, cities, chamadas, full, remote, last, hist, merges,
          reqs, script>>

NULL == "None"

\* ---------------------------------------------------------------- bounds

\* Number of /api/parse requests that reach staging (job ids handed out).
MaxJobs == 2

JobIds == 1..MaxJobs

\* Number of /api/confirm requests served by concurrent threads.
MaxReqs == 2

ReqIds == 1..MaxReqs

\* ------------------------------------------------------- reference data

\* maps_universidade/gender_map.json: uppercase first name -> "M" / "F".
gender_map == [n \in {"ABEL", "ANA"} |-> IF n = "ABEL" THEN "M" ELSE "F"]

\* maps_universidade/campus_map.json: course key (shift marker included) ->
\* ordered list of units.
campus_map ==
    (<<"Matematica", "(N)">> :> <<"IMECC", "IFGW">>) @@
    (<<"Engenharia", "(I)">> :> <<"FT">>)

\* maps_universidade/cidade_map.json: unit -> city.
cidade_map ==
    ("IMECC" :> "campinas") @@ ("IFGW" :> "campinas") @@ ("FT" :> "limeira")

Universities == {"unicamp", "unknown"}
Calls == {1, 2}
CityKeys == {"campinas", "limeira", "indeterminado"}
Inscricoes == {"101", "102"}

\* dict.get(key) of a string-valued map: the value, or NULL when the key is absent.
DictGet(d, k) == IF k \in DOMAIN d THEN d[k] ELSE NULL

\* dict.get(key) of a list-valued map; an absent key reads as the empty list,
\* which the callers ("if not unidades") treat like None.
ListGet(d, k) == IF k \in DOMAIN d THEN d[k] ELSE <<>>

\* Python truthiness of the values the handlers test with "not x" / "x or y":
\* of a string or None, and of a list (token sequences are lists of tokens).
TruthyStr(x) == x # NULL /\ x # ""
Truthy(x) == x # <<>>

\* ------------------------------------------------------ course pipeline

\* curso.replace(" REMANEJADO", "").strip(): the marker is removed wherever a
\* space precedes it, that is, wherever it is not the first token.
clean_curso_name_for_lookup(curso) ==
    IF ~Truthy(curso) THEN <<>>
    ELSE <<Head(curso)>> \o SelectSeq(Tail(curso), LAMBDA t : t # "REMANEJADO")

IsParenToken(t) == t \in {"(N)", "(I)"}

\* re.sub(r'\s*\([^)]+\)\s*$', '', curso): one parenthetical group at the end.
remove_turno_final(curso) ==
    IF ~Truthy(curso) THEN <<>>
    ELSE IF IsParenToken(curso[Len(curso)]) THEN SubSeq(curso, 1, Len(curso) - 1)
    ELSE curso

RECURSIVE DropLicenciatura(_)
DropLicenciatura(c) ==
    IF Len(c) = 0 THEN <<>>
    ELSE IF Len(c) >= 2 /\ c[1] = "-" /\ c[2] \in {"Licenciatura", "licenciatura"}
         THEN DropLicenciatura(SubSeq(c, 3, Len(c)))
    ELSE <<c[1]>> \o DropLicenciatura(Tail(c))

\* re.sub(r'\s*-\s*Licenciatura', '', curso, flags=re.IGNORECASE): every
\* occurrence, wherever it stands.
remove_licenciatura_suffix(curso) ==
    IF ~Truthy(curso) THEN <<>> ELSE DropLicenciatura(curso)

\* NFKD decomposition, combining marks dropped; "Mu'sica" stands for the
\* accented spelling of "Musica".
Unaccent(t) == IF t = "Mu'sica" THEN "Musica" ELSE t

remove_accents(input_str) ==
    IF ~Truthy(input_str) THEN <<>>
    ELSE [i \in 1..Len(input_str) |-> Unaccent(input_str[i])]

\* ------------------------------------------------------------- the page

\* The lines of the <pre> block that match line_regex, already split into the
\* groups parse_unicamp_txt extracts from them.
Lines == {
    [inscricao |-> "101", nome |-> <<"Abel", "Macedo">>, cota |-> "(***)",
     curso |-> <<"Matematica", "(N)">>],
    [inscricao |-> "101", nome |-> <<"Abel", "Macedo">>, cota |-> "(***)",
     curso |-> <<"Engenharia", "(I)", "REMANEJADO">>],
    [inscricao |-> "102", nome |-> <<"Ana-Lu", "Lima">>, cota |-> NULL,
     curso |-> <<"Mu'sica", "-", "Licenciatura", "(N)">>] }

\* Longest page, in lines.
MaxLines == 2

Pages == UNION {[1..n -> Lines] : n \in 0..MaxLines}

\* What requests.get returns for the URL: a page with or without a <pre> block.
Htmls == {[pre |-> FALSE, lines |-> <<>>]} \cup {[pre |-> TRUE, lines |-> p] : p \in Pages}

\* The URL, as the two things detect_university_and_chamada reads from it: the
\* site name and the digits after "chamada" (0: no "chamada<digits>" in it).
Urls == {[site |-> "unicamp", n |-> 1], [site |-> "comvest", n |-> 2],
         [site |-> "usp", n |-> 0]}
EmptyUrl == [site |-> "", n |-> 0]

detect_university_and_chamada(url) ==
    [university |-> IF url.site \in {"unicamp", "comvest"} THEN "unicamp" ELSE "unknown",
     chamada    |-> IF url.n # 0 THEN url.n ELSE 1]

\* One student per matching line (txtparser.py:54-65); the keys "unidade" and
\* "curso_limpo" are absent until classify_campus_inline sets them, and no
\* step of this pipeline sets "remanejado".
parse_unicamp_txt(lines, chamada) ==
    [i \in 1..Len(lines) |->
        [inscricao    |-> lines[i].inscricao,
         nome         |-> lines[i].nome,
         cidade       |-> NULL,
         universidade |-> "unicamp",
         campus       |-> NULL,
         genero       |-> NULL,
         chamada      |-> chamada,
         curso        |-> lines[i].curso,
         cota         |-> lines[i].cota,
         remanejado   |-> NULL,
         unidade      |-> NULL,
         curso_limpo  |-> <<>>]]

\* parse_html_to_students: [students, error]; every student is tagged with the
\* university read from the URL.
parse_html_to_students(html, chamada, university) ==
    IF ~html.pre THEN [students |-> <<>>, error |-> TRUE]
    ELSE LET st == parse_unicamp_txt(html.lines, chamada)
         IN [students |-> [i \in 1..Len(st) |-> [st[i] EXCEPT !.universidade = university]],
             error    |-> FALSE]

\* str.upper() of a first name, and that with every non-letter removed.
Upper(t) == CASE t = "Abel" -> "ABEL" [] t = "Ana-Lu" -> "ANA-LU" [] OTHER -> t
LettersOnly(t) == IF t = "ANA-LU" THEN "ANALU" ELSE t

classify_gender_inline(students) ==
    [i \in 1..Len(students) |->
        LET nome     == students[i].nome
            primeiro == IF Truthy(nome) THEN Upper(nome[1]) ELSE ""
            genero   == IF primeiro \in DOMAIN gender_map THEN gender_map[primeiro]
                        ELSE IF LettersOnly(primeiro) \in DOMAIN gender_map
                             THEN gender_map[LettersOnly(primeiro)]
                        ELSE "I"
        IN [students[i] EXCEPT !.genero = genero]]

\* The tokens of a text are its whitespace-separated words, so
\* " ".join(busca.split()) is the same key and the second lookup repeats the first.
classify_campus_inline(students) ==
    IF DOMAIN campus_map = {} THEN students
    ELSE [i \in 1..Len(students) |->
            LET raw      == students[i].curso
                busca    == clean_curso_name_for_lookup(raw)
                first    == ListGet(campus_map, busca)
                unidades == IF Truthy(first) THEN first ELSE ListGet(campus_map, busca)
            IN IF ~Truthy(unidades) THEN students[i]
               ELSE [students[i] EXCEPT
                        !.campus = DictGet(cidade_map, unidades[1]),
                        !.unidade = unidades[1],
                        !.curso_limpo = remove_accents(remove_licenciatura_suffix(
                                            remove_turno_final(clean_curso_name_for_lookup(raw))))]]

\* by_city / by_campus key of a student: s.get("campus") or "indeterminado".
CityKey(s) == IF TruthyStr(s.campus) THEN s.campus ELSE "indeterminado"

\* A defaultdict(int) filled in one pass over the students' keys: key ->
\* number of students with that key.
CountBy(keys) ==
    [k \in {keys[i] : i \in 1..Len(keys)} |->
        Cardinality({i \in 1..Len(keys) : keys[i] = k})]

GeneroKey(s) == s.genero
CotaKey(s) == IF TruthyStr(s.cota) THEN s.cota ELSE "sem_cota"

build_summary(students) ==
    [total      |-> Len(students),
     por_genero |-> CountBy([i \in 1..Len(students) |-> GeneroKey(students[i])]),
     por_campus |-> CountBy([i \in 1..Len(students) |-> CityKey(students[i])]),
     por_cota   |-> CountBy([i \in 1..Len(students) |-> CotaKey(students[i])])]

\* -------------------------------------------------------- remote mirror

\* A dict write that keeps the value already stored under the key.
DictPutKeepFirst(rows, row) ==
    IF \E k \in 1..Len(rows) : rows[k].inscricao = row.inscricao
    THEN rows
    ELSE Append(rows, row)

\* rows[inscricao] = row on a Python dict: a key already present keeps its
\* place and takes the new value, a new key goes to the end.
DictPut(rows, row) ==
    IF \E k \in 1..Len(rows) : rows[k].inscricao = row.inscricao
    THEN [k \in 1..Len(rows) |-> IF rows[k].inscricao = row.inscricao THEN row ELSE rows[k]]
    ELSE Append(rows, row)

SupabaseRow(s) ==
    [inscricao  |-> s.inscricao,
     name       |-> s.nome,
     course     |-> IF Truthy(s.curso_limpo) THEN s.curso_limpo ELSE s.curso,
     university |-> s.universidade,
     cidade     |-> s.campus,
     unidade    |-> s.unidade,
     chamada    |-> s.chamada,
     genero     |-> IF s.genero = "M" THEN "male"
                    ELSE IF s.genero = "F" THEN "female" ELSE "other",
     cota       |-> s.cota,
     remanejado |-> IF s.remanejado = NULL THEN FALSE ELSE s.remanejado = "true"]

\* The required fields of api.py:162.
HasRequired(s) ==
    /\ TruthyStr(s.inscricao)
    /\ Truthy(s.nome)
    /\ Truthy(IF Truthy(s.curso_limpo) THEN s.curso_limpo ELSE s.curso)
    /\ TruthyStr(s.campus)

RECURSIVE TransformFrom(_, _, _, _)
TransformFrom(students, i, rows, skipped) ==
    IF i > Len(students) THEN [rows |-> rows, skipped |-> skipped]
    ELSE IF ~HasRequired(students[i])
         THEN TransformFrom(students, i + 1, rows, skipped + 1)
    ELSE TransformFrom(students, i + 1, DictPut(rows, SupabaseRow(students[i])), skipped)

transform_for_supabase(students) == TransformFrom(students, 1, <<>>, 0)

\* upload_script.py:79 and 93: the fields transform_data requires.
DataRequired(s) ==
    /\ TruthyStr(s.inscricao)
    /\ Truthy(s.nome)
    /\ Truthy(s.curso)
    /\ TruthyStr(s.campus)

\* upload_script.py:98-113: the row; "course" is read from curso_limpo alone.
DataRow(s) == [SupabaseRow(s) EXCEPT !.course = s.curso_limpo]

RECURSIVE TransformDataFrom(_, _, _)
TransformDataFrom(students_list, i, rows) ==
    IF i > Len(students_list) THEN rows
    ELSE IF ~DataRequired(students_list[i])
         THEN TransformDataFrom(students_list, i + 1, rows)
    ELSE TransformDataFrom(students_list, i + 1, DictPut(rows, DataRow(students_list[i])))

\* upload_script.py transform_data: final_list; nothing else is returned.
transform_data(students_list) == TransformDataFrom(students_list, 1, <<>>)

\* upload_to_supabase: the outcome reported and the rows that reach the table.
\* upsertOk is whether .upsert(...).execute() returns rather than raises.
upload_to_supabase(students, upsertOk) ==
    LET t == transform_for_supabase(students)
    IN IF ~supabase THEN [ok |-> FALSE, kind |-> "not_configured", rows |-> <<>>]
       ELSE IF ~Truthy(t.rows) THEN [ok |-> FALSE, kind |-> "no_rows", rows |-> <<>>]
       ELSE IF upsertOk THEN [ok |-> TRUE, kind |-> "sent", rows |-> t.rows]
       ELSE [ok |-> FALSE, kind |-> "error", rows |-> <<>>]

\* upsert(rows, on_conflict="inscricao"): one row per inscricao, the new row wins.
Upsert(table, rows) ==
    [k \in DOMAIN table \cup {rows[i].inscricao : i \in 1..Len(rows)} |->
        IF \E i \in 1..Len(rows) : rows[i].inscricao = k
        THEN (CHOOSE r \in {rows[i] : i \in 1..Len(rows)} : r.inscricao = k)
        ELSE table[k]]

\* ----------------------------------------------------------- local merge

\* by_city of api.py:302-304: the groups, in batch order, under CityKey.
GroupKeys(students) == {CityKey(students[i]) : i \in 1..Len(students)}
Group(students, city) == SelectSeq(students, LAMBDA s : CityKey(s) = city)

\* A snapshot writer that appends the group to what the file held.
WriteSnapshotAppending(old, lst) == old \o lst

\* api.py:309-310: the snapshot c<chamada>.json is opened with "w" and the
\* group dumped into it.
WriteSnapshot(old, lst) == lst

\* api.py:321-322: the entries of the group whose inscricao is not in the file.
NewEntries(existing, lst) ==
    LET existing_ids == {existing[i].inscricao : i \in 1..Len(existing)}
    IN SelectSeq(lst, LAMBDA s : s.inscricao \notin existing_ids)

\* api.py:313-324 for one city: file is the content of <city>.json (<<>>: no
\* such file), readFails whether opening or decoding an existing file raises.
MergeCity(file, lst, readFails) ==
    LET existing == IF file # <<>> /\ ~readFails THEN file ELSE <<>>
    IN existing \o NewEntries(existing, lst)

\* ---------------------------------------------------------------- state

Stores == <<cities, chamadas, full, remote>>

\* The response of a request that changes nothing but the response.
Respond(op, j, code, status) ==
    /\ last' = [op |-> op, job |-> j, code |-> code, sb |-> "n/a", status |-> status]

\* A request thread that has not started, and a script that has not run.
IdleReq == [pc |-> "idle", job |-> 0, up |-> "n/a", todo |-> <<>>, existing |-> <<>>,
            code |-> 0]
NoRun == [input |-> <<>>, output |-> <<>>, runs |-> 0]

Init ==
    /\ staging = [j \in {} |-> NULL]
    /\ nextJob = 0
    /\ supabase \in BOOLEAN
    /\ cities = [k \in Universities \X CityKeys |-> <<>>]
    /\ chamadas = [k \in Universities \X CityKeys \X Calls |-> <<>>]
    /\ full = [k \in Universities \X Calls |-> <<>>]
    /\ remote = [k \in {} |-> NULL]
    /\ last = [op |-> "start", job |-> 0, code |-> 0, sb |-> "n/a", status |-> "n/a"]
    /\ hist = [j \in JobIds |-> [created |-> FALSE, confirmed |-> FALSE, cancelled |-> FALSE]]
    /\ merges = [j \in JobIds |-> 0]
    /\ reqs = [r \in ReqIds |-> IdleReq]
    /\ script = NoRun

\* ------------------------------------------------------------- handlers

\* POST /api/parse.  fetchOk: requests.get and raise_for_status return.
parse_url(url, fetchOk, html) ==
    /\ nextJob < MaxJobs
    /\ LET det      == detect_university_and_chamada(url)
           parsed   == parse_html_to_students(html, det.chamada, det.university)
           students == classify_campus_inline(classify_gender_inline(parsed.students))
           job_id   == nextJob + 1
       IN IF url = EmptyUrl THEN
               /\ Respond("parse", 0, 400, "n/a")
               /\ UNCHANGED <<staging, nextJob, supabase, Stores, hist, merges, reqs, script>>
          ELSE IF ~fetchOk THEN
               /\ Respond("parse", 0, 502, "n/a")
               /\ UNCHANGED <<staging, nextJob, supabase, Stores, hist, merges, reqs, script>>
          ELSE IF parsed.error \/ ~Truthy(parsed.students) THEN
               /\ Respond("parse", 0, 422, "n/a")
               /\ UNCHANGED <<staging, nextJob, supabase, Stores, hist, merges, reqs, script>>
          ELSE /\ staging' = staging @@ (job_id :>
                     [students   |-> students,
                      url        |-> url,
                      university |-> det.university,
                      chamada    |-> det.chamada,
                      summary    |-> build_summary(students),
                      status     |-> "pending"])
               /\ nextJob' = job_id
               /\ hist' = [hist EXCEPT ![job_id].created = TRUE]
               /\ Respond("parse", job_id, 200, "pending")
               /\ UNCHANGED <<supabase, Stores, merges, reqs, script>>

\* api.py:306-310: every group's snapshot of call c under university u.
WriteSnapshots(files, students, u, c) ==
    [k \in DOMAIN files |->
        IF k[1] = u /\ k[2] \in GroupKeys(students) /\ k[3] = c
        THEN WriteSnapshot(files[k], Group(students, k[2]))
        ELSE files[k]]

\* api.py:312-324: every group's cumulative file under university u.
MergeCities(files, students, u, readFails) ==
    [k \in DOMAIN files |->
        IF k[1] = u /\ k[2] \in GroupKeys(students)
        THEN MergeCity(files[k], Group(students, k[2]), k[2] \in readFails)
        ELSE files[k]]

\* A full dump that keeps only the records whose course resolved to a city.
WriteFullResolved(files, students, u, c) ==
    [files EXCEPT ![<<u, c>>] = SelectSeq(students, LAMBDA s : TruthyStr(s.campus))]

\* api.py:326-328: the full dump of call c under university u.
WriteFull(files, students, u, c) == [files EXCEPT ![<<u, c>>] = students]

\* A confirm that gives up, leaving the job pending and the files untouched,
\* when the remote mirror did not take the rows.
ConfirmPendingGated(j, upsertOk, readFails) ==
    LET job      == staging[j]
        students == job.students
        u        == job.university
        c        == job.chamada
        up       == upload_to_supabase(students, upsertOk)
    IN IF ~up.ok THEN
            /\ last' = [op |-> "confirm", job |-> j, code |-> 502, sb |-> up.kind,
                        status |-> "pending"]
            /\ UNCHANGED <<staging, nextJob, supabase, Stores, hist, merges, reqs, script>>
       ELSE /\ remote' = Upsert(remote, up.rows)
            /\ chamadas' = WriteSnapshots(chamadas, students, u, c)
            /\ cities' = MergeCities(cities, students, u, readFails)
            /\ full' = WriteFull(full, students, u, c)
            /\ staging' = [staging EXCEPT ![j].status = "confirmed"]
            /\ last' = [op |-> "confirm", job |-> j, code |-> 200, sb |-> up.kind,
                        status |-> "confirmed"]
            /\ hist' = [hist EXCEPT ![j].confirmed = TRUE]
            /\ merges' = [merges EXCEPT ![j] = @ + 1]
            /\ UNCHANGED <<nextJob, supabase, reqs, script>>

\* api.py:291-336 on a pending job: the remote mirror, the snapshots, the
\* cumulative files, the full dump, then the status.
ConfirmPending(j, upsertOk, readFails) ==
    LET job      == staging[j]
        students == job.students
        u        == job.university
        c        == job.chamada
        up       == upload_to_supabase(students, upsertOk)
    IN /\ remote' = IF up.ok THEN Upsert(remote, up.rows) ELSE remote
       /\ chamadas' = WriteSnapshots(chamadas, students, u, c)
       /\ cities' = MergeCities(cities, students, u, readFails)
       /\ full' = WriteFull(full, students, u, c)
       /\ staging' = [staging EXCEPT ![j].status = "confirmed"]
       /\ last' = [op |-> "confirm", job |-> j, code |-> 200, sb |-> up.kind,
                   status |-> "confirmed"]
       /\ hist' = [hist EXCEPT ![j].confirmed = TRUE]
       /\ merges' = [merges EXCEPT ![j] = @ + 1]
       /\ UNCHANGED <<nextJob, supabase, reqs, script>>

\* POST /api/confirm/<job_id>.
confirm_job(j) ==
    IF j \notin DOMAIN staging THEN
         /\ Respond("confirm", j, 404, "n/a")
         /\ UNCHANGED <<staging, nextJob, supabase, Stores, hist, merges, reqs, script>>
    ELSE IF staging[j].status # "pending" THEN
         /\ Respond("confirm", j, 409, "n/a")
         /\ UNCHANGED <<staging, nextJob, supabase, Stores, hist, merges, reqs, script>>
    ELSE \E upsertOk \in BOOLEAN :
         \E readFails \in SUBSET {city \in GroupKeys(staging[j].students) :
                                     cities[<<staging[j].university, city>>] # <<>>} :
             ConfirmPending(j, upsertOk, readFails)

\* A cancel that answers without removing the entry.
CancelKeepingEntry(stg, j) == stg

\* api.py:349-350: the staging dictionary after the request.
CancelStaging(stg, j) ==
    IF j \in DOMAIN stg THEN [k \in DOMAIN stg \ {j} |-> stg[k]] ELSE stg

\* POST /api/cancel/<job_id>.
cancel_job(j) ==
    /\ staging' = CancelStaging(staging, j)
    /\ Respond("cancel", j, 200, "n/a")
    /\ hist' = IF j \in DOMAIN staging /\ staging[j].status = "pending"
               THEN [hist EXCEPT ![j].cancelled = TRUE]
               ELSE hist
    /\ UNCHANGED <<nextJob, supabase, Stores, merges, reqs, script>>

\* GET /api/status/<job_id>.
job_status(j) ==
    /\ IF j \notin DOMAIN staging
       THEN Respond("status", j, 404, "n/a")
       ELSE Respond("status", j, 200, staging[j].status)
    /\ UNCHANGED <<staging, nextJob, supabase, Stores, hist, merges, reqs, script>>

\* A request names a job id handed out so far, or 0, an id never handed out.
JobArgs == 0..nextJob

\* The requests /api/parse can get: no URL, a URL that cannot be fetched (the
\* handler returns before it reads the rest), or a URL and the page behind it.
NoPre == [pre |-> FALSE, lines |-> <<>>]
ParseInputs ==
    {<<EmptyUrl, TRUE, NoPre>>}
    \cup {<<url, FALSE, NoPre>> : url \in Urls}
    \cup {<<url, TRUE, html>> : url \in Urls, html \in Htmls}

Parse == \E in \in ParseInputs : parse_url(in[1], in[2], in[3])
Confirm == \E j \in JobArgs : confirm_job(j)
Cancel == \E j \in JobArgs : cancel_job(j)
Status == \E j \in JobArgs : job_status(j)

Next == Parse \/ Confirm \/ Cancel \/ Status

Spec == Init /\ [][Next]_vars

\* A service restarted on the disk that an earlier run left after it confirmed
\* one batch (staging is process memory and starts empty; the files persist).
\* The restarted service is sent one page twice and confirms both jobs.
InitRerun ==
    /\ staging = [j \in {} |-> NULL]
    /\ nextJob = 0
    /\ supabase \in BOOLEAN
    /\ \E url \in Urls, html \in Htmls :
          LET det      == detect_university_and_chamada(url)
              parsed   == parse_html_to_students(html, det.chamada, det.university)
              students == classify_campus_inline(classify_gender_inline(parsed.students))
              nofile2  == [k \in Universities \X CityKeys |-> <<>>]
              nofile3  == [k \in Universities \X CityKeys \X Calls |-> <<>>]
              nodump   == [k \in Universities \X Calls |-> <<>>]
          IN /\ Truthy(parsed.students)
             /\ cities = MergeCities(nofile2, students, det.university, {})
             /\ chamadas = WriteSnapshots(nofile3, students, det.university, det.chamada)
             /\ full = WriteFull(nodump, students, det.university, det.chamada)
    /\ remote = [k \in {} |-> NULL]
    /\ last = [op |-> "start", job |-> 0, code |-> 0, sb |-> "n/a", status |-> "n/a"]
    /\ hist = [j \in JobIds |-> [created |-> FALSE, confirmed |-> FALSE, cancelled |-> FALSE]]
    /\ merges = [j \in JobIds |-> 0]
    /\ reqs = [r \in ReqIds |-> IdleReq]
    /\ script = NoRun

ParseAgain ==
    \E in \in ParseInputs :
        /\ in[2]
        /\ nextJob > 0 => in[1] = staging[1].url
        /\ parse_url(in[1], in[2], in[3])
        /\ nextJob > 0 => staging'[nextJob'].students = staging[1].students

NextRerun == ParseAgain \/ Confirm

SpecRerun == InitRerun /\ [][NextRerun]_vars

\* The service sent one page, of any mix of lines up to MaxBatch: lines whose
\* course resolves and lines whose course does not, for one enrollment id or
\* two, and a line whose name group is empty (line_regex lets (.*?) match
\* nothing).
BatchLines == Lines \cup {
    [inscricao |-> "101", nome |-> <<"Abel", "Macedo">>, cota |-> "(***)",
     curso |-> <<"Mu'sica", "-", "Licenciatura", "(N)">>],
    [inscricao |-> "102", nome |-> <<>>, cota |-> NULL,
     curso |-> <<"Matematica", "(N)">>],
    [inscricao |-> "102", nome |-> <<"Ana-Lu", "Lima">>, cota |-> NULL,
     curso |-> <<"Matematica", "(N)">>] }

\* Longest page of the one-page service, in lines.
MaxBatch == 3

BatchPages == UNION {[1..n -> BatchLines] : n \in 0..MaxBatch}

ParseBatch ==
    /\ nextJob = 0
    /\ \E url \in Urls, page \in BatchPages :
          parse_url(url, TRUE, [pre |-> TRUE, lines |-> page])

NextBatch == ParseBatch \/ Confirm

SpecBatch == Init /\ [][NextBatch]_vars

\* ------------------------------------------------- concurrent confirms
\* app.run (api.py:370) serves every request in a thread of its own and no
\* handler takes a lock, so the steps of two confirm_job calls interleave at
\* every file and network operation.  reqs[r] is the thread of request r:
\* where it is (pc), its job id, the remote outcome it will report (up), the
\* cities its cumulative loop has not reached yet (todo), the list it read
\* from the city file at hand (existing) and the status it answered (code).
\* A file is read and written in one piece, and a read of an existing file
\* succeeds.

\* by_city.items() of api.py:306 and 312: the keys in order of first occurrence.
CityOrder(students) ==
    LET idx   == [i \in 1..Len(students) |-> i]
        first == SelectSeq(idx, LAMBDA i :
                     \A i2 \in 1..(i - 1) : CityKey(students[i2]) # CityKey(students[i]))
    IN [n \in 1..Len(first) |-> CityKey(students[first[n]])]

\* api.py:273-277: the request is received and the entry looked up.
ConfReceive(r, j) ==
    /\ reqs[r].pc = "idle"
    /\ IF j \notin DOMAIN staging THEN
            /\ reqs' = [reqs EXCEPT ![r] = [@ EXCEPT !.pc = "done", !.job = j, !.code = 404]]
            /\ Respond("confirm", j, 404, "n/a")
       ELSE IF staging[j].status # "pending" THEN
            /\ reqs' = [reqs EXCEPT ![r] = [@ EXCEPT !.pc = "done", !.job = j, !.code = 409]]
            /\ Respond("confirm", j, 409, "n/a")
       ELSE /\ reqs' = [reqs EXCEPT ![r] = [@ EXCEPT !.pc = "upload", !.job = j]]
            /\ UNCHANGED last
    /\ UNCHANGED <<staging, nextJob, supabase, Stores, hist, merges, script>>

\* api.py:292-293.
ConfUpload(r) ==
    /\ reqs[r].pc = "upload"
    /\ \E upsertOk \in BOOLEAN :
          LET up == upload_to_supabase(staging[reqs[r].job].students, upsertOk)
          IN /\ remote' = IF up.ok THEN Upsert(remote, up.rows) ELSE remote
             /\ reqs' = [reqs EXCEPT ![r] = [@ EXCEPT !.pc = "snapshots", !.up = up.kind]]
    /\ UNCHANGED <<staging, nextJob, supabase, cities, chamadas, full, last, hist, merges,
                   script>>

\* api.py:302-310.
ConfSnapshots(r) ==
    /\ reqs[r].pc = "snapshots"
    /\ LET job == staging[reqs[r].job]
       IN /\ chamadas' = WriteSnapshots(chamadas, job.students, job.university, job.chamada)
          /\ reqs' = [reqs EXCEPT ![r] = [@ EXCEPT !.pc = "read",
                                                   !.todo = CityOrder(job.students)]]
    /\ UNCHANGED <<staging, nextJob, supabase, cities, full, remote, last, hist, merges,
                   script>>

\* api.py:313-320: existing = json.load(city file), [] when there is no file.
ConfRead(r) ==
    /\ reqs[r].pc = "read"
    /\ LET job == staging[reqs[r].job]
       IN reqs' = [reqs EXCEPT ![r] = [@ EXCEPT
                      !.pc = "write",
                      !.existing = cities[<<job.university, Head(reqs[r].todo)>>]]]
    /\ UNCHANGED <<staging, nextJob, supabase, Stores, last, hist, merges, script>>

\* api.py:321-324: existing + new_entries is written over the city file.
ConfWrite(r) ==
    /\ reqs[r].pc = "write"
    /\ LET job  == staging[reqs[r].job]
           city == Head(reqs[r].todo)
       IN /\ cities' = [cities EXCEPT ![<<job.university, city>>] =
                            MergeCity(reqs[r].existing, Group(job.students, city), FALSE)]
          /\ reqs' = [reqs EXCEPT ![r] = [@ EXCEPT
                         !.pc = IF Tail(reqs[r].todo) = <<>> THEN "finish" ELSE "read",
                         !.todo = Tail(reqs[r].todo),
                         !.existing = <<>>]]
    /\ UNCHANGED <<staging, nextJob, supabase, chamadas, full, remote, last, hist, merges,
                   script>>

\* api.py:326-344: the full dump, the status, the response.
ConfFinish(r) ==
    /\ reqs[r].pc = "finish"
    /\ LET j   == reqs[r].job
           job == staging[j]
       IN /\ full' = WriteFull(full, job.students, job.university, job.chamada)
          /\ staging' = [staging EXCEPT ![j].status = "confirmed"]
          /\ last' = [op |-> "confirm", job |-> j, code |-> 200, sb |-> reqs[r].up,
                      status |-> "confirmed"]
          /\ hist' = [hist EXCEPT ![j].confirmed = TRUE]
          /\ merges' = [merges EXCEPT ![j] = @ + 1]
          /\ reqs' = [reqs EXCEPT ![r] = [@ EXCEPT !.pc = "done", !.code = 200]]
    /\ UNCHANGED <<nextJob, supabase, cities, chamadas, remote, script>>

\* The pages sent while confirms are in flight: one URL, and lines of two
\* enrollment ids whose courses resolve to one city, and a line that resolves
\* to none.
ConcLines ==
    {l \in BatchLines : l.nome # <<>> /\ l.curso[1] \in {"Matematica", "Mu'sica"}
                           /\ (l.inscricao = "101" => l.curso[1] = "Matematica")}

ConcPages == UNION {[1..n -> ConcLines] : n \in 0..MaxLines}

ParseConc ==
    \E page \in ConcPages :
        parse_url([site |-> "unicamp", n |-> 1], TRUE, [pre |-> TRUE, lines |-> page])

Receive == \E r \in ReqIds, j \in JobArgs : ConfReceive(r, j)
UploadStep == \E r \in ReqIds : ConfUpload(r)
SnapshotStep == \E r \in ReqIds : ConfSnapshots(r)
ReadStep == \E r \in ReqIds : ConfRead(r)
WriteStep == \E r \in ReqIds : ConfWrite(r)
FinishStep == \E r \in ReqIds : ConfFinish(r)

NextConc ==
    ParseConc \/ Receive \/ UploadStep \/ SnapshotStep \/ ReadStep \/ WriteStep \/ FinishStep

SpecConc == Init /\ [][NextConc]_vars

\* ------------------------------------------- campus_parser.py as a script
\* process_campus_classification(input, output_dir) with output_dir =
\* jsons/unicamp (campus_parser.py:184-189): the files it writes are the
\* cities and chamadas files of the university "unicamp".  A read of an
\* existing city file succeeds.

\* campus_parser.py:64-82, None as NULL.
determine_campus_and_city(curso_original) ==
    LET curso_busca == clean_curso_name_for_lookup(curso_original)
        unidades    == ListGet(campus_map, curso_busca)
    IN IF ~Truthy(unidades) THEN [unidade |-> NULL, cidade |-> NULL]
       ELSE [unidade |-> unidades[1], cidade |-> DictGet(cidade_map, unidades[1])]

\* campus_parser.py:130: "REMANEJADO" in raw_course.
is_remanejado(raw_course) == \E t \in 1..Len(raw_course) : raw_course[t] = "REMANEJADO"

\* campus_parser.py:135-143: the four steps, in their order.
curso_visual_limpo(raw_course) ==
    remove_accents(remove_licenciatura_suffix(remove_turno_final(
        clean_curso_name_for_lookup(raw_course))))

\* campus_parser.py:126-149: the students, updated in place.
ClassifyStudents(students) ==
    [i \in 1..Len(students) |->
        LET d == determine_campus_and_city(students[i].curso)
        IN [students[i] EXCEPT
               !.campus = d.cidade,
               !.unidade = d.unidade,
               !.remanejado = IF is_remanejado(students[i].curso) THEN "true" ELSE "false",
               !.curso_limpo = curso_visual_limpo(students[i].curso)]]

\* Tokens a course is made of, and the longest course of the one-record files.
CourseTokens == {"Matematica", "Mu'sica", "(N)", "(I)", "-", "Licenciatura", "REMANEJADO"}
MaxTokens == 3
Courses == UNION {[1..n -> CourseTokens] : n \in 1..MaxTokens}

\* campus_intermediate.json: what parse_unicamp_txt and the gender step left,
\* either one record of any course or a page of up to MaxLines known lines.
ScriptInputs ==
    {classify_gender_inline(parse_unicamp_txt(
         <<[inscricao |-> "101", nome |-> <<"Abel", "Macedo">>, cota |-> NULL,
            curso |-> c]>>, 1)) : c \in Courses}
    \cup {classify_gender_inline(parse_unicamp_txt(p, 1)) : p \in Pages}

\* Number of times the script is run on its input file.
MaxRuns == 2

process_campus_classification ==
    /\ script.runs < MaxRuns
    /\ IF DOMAIN campus_map = {} \/ ~Truthy(script.input) THEN
            /\ script' = [script EXCEPT !.runs = @ + 1]
            /\ UNCHANGED <<cities, chamadas>>
       ELSE LET students      == ClassifyStudents(script.input)
                chamada_atual == script.input[1].chamada
                OfCity(city)  == SelectSeq(students, LAMBDA s : s.campus = city)
            IN /\ chamadas' = [k \in DOMAIN chamadas |->
                                  IF k[1] = "unicamp" /\ k[3] = chamada_atual
                                        /\ Truthy(OfCity(k[2]))
                                  THEN OfCity(k[2]) ELSE chamadas[k]]
               /\ cities' = [k \in DOMAIN cities |->
                                IF k[1] = "unicamp" THEN cities[k] \o OfCity(k[2])
                                ELSE cities[k]]
               /\ script' = [script EXCEPT !.output = students, !.runs = @ + 1]
    /\ UNCHANGED <<staging, nextJob, supabase, full, remote, last, hist, merges, reqs>>

InitScript ==
    /\ staging = [j \in {} |-> NULL]
    /\ nextJob = 0
    /\ supabase \in BOOLEAN
    /\ cities = [k \in Universities \X CityKeys |-> <<>>]
    /\ chamadas = [k \in Universities \X CityKeys \X Calls |-> <<>>]
    /\ full = [k \in Universities \X Calls |-> <<>>]
    /\ remote = [k \in {} |-> NULL]
    /\ last = [op |-> "start", job |-> 0, code |-> 0, sb |-> "n/a", status |-> "n/a"]
    /\ hist = [j \in JobIds |-> [created |-> FALSE, confirmed |-> FALSE, cancelled |-> FALSE]]
    /\ merges = [j \in JobIds |-> 0]
    /\ reqs = [r \in ReqIds |-> IdleReq]
    /\ \E input \in ScriptInputs : script = [NoRun EXCEPT !.input = input]

NextScript == process_campus_classification

SpecScript == InitScript /\ [][NextScript]_vars

\* ----------------------------------------------------------- properties

\* The step just taken served the request op for job id j.
Served(op, j) == last'.op = op /\ last'.job = j

\* Number of entries of the list lst that carry the enrollment id x.
Occurrences(lst, x) == Cardinality({i \in 1..Len(lst) : lst[i].inscricao = x})

\* Sum of f over the finite set S of its keys.
RECURSIVE SumOver(_, _)
SumOver(f, S) ==
    IF S = {} THEN 0
    ELSE LET k == CHOOSE k \in S : TRUE IN f[k] + SumOver(f, S \ {k})

\* a is b with zero or more entries left out: every entry of a is in b, in
\* the same relative order.
RECURSIVE IsSubsequence(_, _)
IsSubsequence(a, b) ==
    IF a = <<>> THEN TRUE
    ELSE IF b = <<>> THEN FALSE
    ELSE IF Head(a) = Head(b) THEN IsSubsequence(Tail(a), Tail(b))
    ELSE IsSubsequence(a, Tail(b))

\* C1: once a confirm of a pending job has completed, every later confirm
\* request for that job id is answered 409 (conflict) and leaves the
\* cumulative files, the snapshots, the full dumps and the remote table as
\* they were.
C1_LaterConfirmIsConflict ==
    [][\A j \in JobIds :
          (hist[j].confirmed /\ Served("confirm", j))
              => (last'.code = 409 /\ Stores' = Stores)]_vars

\* C2: a cancel request on a job whose status is "confirmed" is answered 409
\* (conflict) and leaves the staging entry, status included, as it was.
C2_CancelConfirmedIsConflict ==
    [][\A j \in JobIds :
          (/\ j \in DOMAIN staging
           /\ staging[j].status = "confirmed"
           /\ Served("cancel", j))
              => (last'.code = 409 /\ staging' = staging)]_vars

\* C3: a confirm or a cancel request naming a job id that is not in staging
\* is answered with an error (404 or 409), never with success, and leaves
\* staging and every persisted store as they were.
C3_UnknownJobIsError ==
    [][\A j \in 0..MaxJobs :
          (j \notin DOMAIN staging /\ (Served("confirm", j) \/ Served("cancel", j)))
              => (/\ last'.code \in {404, 409}
                  /\ staging' = staging
                  /\ Stores' = Stores)]_vars

\* C4: a cancel request on a pending job writes nothing to the cumulative
\* files, the snapshots, the full dumps or the remote table, and no later
\* confirm request for that job id runs the merge: the merge of a job that
\* was cancelled while pending has run zero times and every confirm request
\* for it is refused and leaves the stores as they were.
C4_CancelHasNoMergeEffects ==
    [][\A j \in JobIds :
          /\ (j \in DOMAIN staging /\ staging[j].status = "pending" /\ Served("cancel", j))
                => Stores' = Stores
          /\ (hist[j].cancelled /\ Served("confirm", j))
                => (Stores' = Stores /\ last'.code # 200)
          /\ hist'[j].cancelled => merges'[j] = 0]_vars

\* A job was cancelled while pending and a confirm request for it was served
\* afterwards.
C4_Witness ==
    \E j \in JobIds : hist[j].cancelled /\ last.op = "confirm" /\ last.job = j

\* C5: when two jobs hold the same records and the second is confirmed right
\* after the first, the second confirm leaves every cumulative file as the
\* first left it.
C5_MergeIdempotent ==
    [][\A j1, j2 \in JobIds :
          (/\ j1 # j2
           /\ j1 \in DOMAIN staging /\ j2 \in DOMAIN staging
           /\ staging[j1].students = staging[j2].students
           /\ staging[j1].university = staging[j2].university
           /\ staging[j1].status = "confirmed"
           /\ last.op = "confirm" /\ last.job = j1 /\ last.code = 200
           /\ Served("confirm", j2) /\ last'.code = 200)
              => cities' = cities]_vars

\* C6: no cumulative file holds two entries with the same enrollment id.
C6_NoDuplicateIds ==
    \A k \in DOMAIN cities : \A x \in Inscricoes : Occurrences(cities[k], x) <= 1

\* C7: every confirm keeps every entry of every cumulative file, unmodified
\* and in the same relative order.
C7_AppendOnly ==
    [][\A k \in DOMAIN cities : IsSubsequence(cities[k], cities'[k])]_vars

\* C8: when an enrollment id is in the confirmed batch of call 1 and in the
\* confirmed batch of call 2 (once in each), it occurs exactly once in the
\* cumulative files of all cities together, once in the snapshots of call 1
\* and once in the snapshots of call 2.
C8_CrossCallStoredOnce ==
    \A j1, j2 \in DOMAIN staging : \A x \in Inscricoes :
        (/\ staging[j1].status = "confirmed" /\ staging[j2].status = "confirmed"
         /\ staging[j1].university = staging[j2].university
         /\ staging[j1].chamada = 1 /\ staging[j2].chamada = 2
         /\ Occurrences(staging[j1].students, x) = 1
         /\ Occurrences(staging[j2].students, x) = 1)
            => LET u == staging[j1].university
               IN /\ SumOver([c \in CityKeys |-> Occurrences(cities[<<u, c>>], x)], CityKeys) = 1
                  /\ SumOver([c \in CityKeys |-> Occurrences(chamadas[<<u, c, 1>>], x)], CityKeys) = 1
                  /\ SumOver([c \in CityKeys |-> Occurrences(chamadas[<<u, c, 2>>], x)], CityKeys) = 1

\* C9: a confirm of a batch of call c leaves, for every city group of the
\* batch, the snapshot of (city, c) equal to exactly that group's records,
\* whatever it held before, and leaves the snapshots of every other call as
\* they were.
C9_SnapshotReplaced ==
    [][\A j \in JobIds :
          (Served("confirm", j) /\ last'.code = 200)
              => LET job == staging[j]
                 IN /\ \A city \in GroupKeys(job.students) :
                          chamadas'[<<job.university, city, job.chamada>>]
                              = Group(job.students, city)
                    /\ \A k \in DOMAIN chamadas :
                          k[3] # job.chamada => chamadas'[k] = chamadas[k]]_vars

\* A confirm has just replaced a snapshot that an earlier confirm of the same
\* call had written with other records.
C9_Witness ==
    \E j1, j2 \in DOMAIN staging : \E city \in CityKeys :
        /\ j1 # j2
        /\ staging[j1].status = "confirmed" /\ staging[j2].status = "confirmed"
        /\ staging[j1].university = staging[j2].university
        /\ staging[j1].chamada = staging[j2].chamada
        /\ Group(staging[j1].students, city) # <<>>
        /\ Group(staging[j2].students, city) # <<>>
        /\ Group(staging[j1].students, city) # Group(staging[j2].students, city)
        /\ last.op = "confirm" /\ last.job = j2 /\ last.code = 200
        /\ chamadas[<<staging[j2].university, city, staging[j2].chamada>>]
              = Group(staging[j2].students, city)

\* C10: no record with a null city is written into a cumulative file: no
\* cumulative file exists under the "indeterminado" key and no entry of a
\* cumulative file has a null campus.
C10_NoNullCityInCumulative ==
    \A k \in DOMAIN cities :
        /\ k[2] = "indeterminado" => cities[k] = <<>>
        /\ \A i \in 1..Len(cities[k]) : TruthyStr(cities[k][i].campus)

\* C11: when a confirm of a pending job completes, the full dump of the
\* job's call holds every record of the batch, in batch order; every record
\* without a city (which the remote payload leaves out) is in that dump, is
\* in the "indeterminado" snapshot of the call, and is counted in the batch
\* summary: total counts every record and por_campus["indeterminado"] counts
\* the records without a city.
C11_FullDumpHoldsEveryRecord ==
    [][\A j \in DOMAIN staging :
          (staging[j].status = "pending" /\ Served("confirm", j) /\ last'.code = 200)
              => LET students == staging[j].students
                     u        == staging[j].university
                     c        == staging[j].chamada
                     summary  == staging[j].summary
                     nocity   == {i \in 1..Len(students) : students[i].campus = NULL}
                     payload  == transform_for_supabase(students).rows
                     snapshot == chamadas'[<<u, "indeterminado", c>>]
                 IN /\ full'[<<u, c>>] = students
                    /\ summary.total = Len(students)
                    /\ Len(payload) + Cardinality(nocity) <= Len(students)
                    /\ nocity # {} =>
                          /\ summary.por_campus["indeterminado"] = Cardinality(nocity)
                          /\ Len(snapshot) = Cardinality(nocity)
                    /\ \A i \in nocity :
                          /\ \E k \in 1..Len(snapshot) : snapshot[k] = students[i]
                          /\ \E k \in 1..Len(full'[<<u, c>>]) :
                                 full'[<<u, c>>][k] = students[i]]_vars

\* A confirm has just completed whose batch mixes a record without a city
\* with records that reached the remote table.
C11_Witness ==
    /\ last.op = "confirm" /\ last.code = 200 /\ last.sb = "sent"
    /\ last.job \in DOMAIN staging
    /\ LET job == staging[last.job]
       IN /\ \E i \in 1..Len(job.students) : job.students[i].campus = NULL
          /\ full[<<job.university, job.chamada>>] = job.students
          /\ chamadas[<<job.university, "indeterminado", job.chamada>>] # <<>>

\* C12: a confirm request on a pending job is answered 200 whatever the
\* remote mirror did: the job becomes "confirmed", the full dump holds the
\* batch, every group's snapshot holds the group and every group's cumulative
\* file holds every enrollment id of the group.  The response names the remote
\* outcome: "not_configured" without a client, "no_rows" when no record has
\* the required fields, else "sent" or "error"; on any outcome other than
\* "sent" the remote table is left as it was.
C12_RemoteNeverGatesLocal ==
    [][\A j \in DOMAIN staging :
          (staging[j].status = "pending" /\ Served("confirm", j))
              => LET students == staging[j].students
                     u        == staging[j].university
                     c        == staging[j].chamada
                     valid    == {i \in 1..Len(students) : students[i].campus # NULL}
                 IN /\ last'.code = 200
                    /\ staging'[j].status = "confirmed"
                    /\ full'[<<u, c>>] = students
                    /\ \A i \in 1..Len(students) :
                          LET city == IF students[i].campus = NULL
                                      THEN "indeterminado" ELSE students[i].campus
                          IN /\ \E k \in 1..Len(chamadas'[<<u, city, c>>]) :
                                    chamadas'[<<u, city, c>>][k] = students[i]
                             /\ \E k \in 1..Len(cities'[<<u, city>>]) :
                                    cities'[<<u, city>>][k].inscricao = students[i].inscricao
                    /\ last'.sb = IF ~supabase THEN "not_configured"
                                  ELSE IF valid = {} THEN "no_rows"
                                  ELSE IF remote' # remote THEN "sent" ELSE last'.sb
                    /\ last'.sb \in {"not_configured", "no_rows", "error", "sent"}
                    /\ last'.sb # "sent" => remote' = remote]_vars

\* A confirm has just been answered 200 although the upsert raised: the job
\* is confirmed and the batch is on disk.
C12_Witness ==
    /\ last.op = "confirm" /\ last.code = 200 /\ last.sb = "error"
    /\ last.job \in DOMAIN staging
    /\ LET job == staging[last.job]
       IN /\ job.status = "confirmed"
          /\ full[<<job.university, job.chamada>>] = job.students
          /\ \E city \in CityKeys : cities[<<job.university, city>>] # <<>>

\* The rows are one per enrollment id of the records of batch at the indices
\* valid, and each row carries the values of the last such record of its id.
OneRowPerValidId(batch, rows, valid) ==
    /\ {rows[k].inscricao : k \in 1..Len(rows)} = {batch[i].inscricao : i \in valid}
    /\ \A k1, k2 \in 1..Len(rows) : rows[k1].inscricao = rows[k2].inscricao => k1 = k2
    /\ \A k \in 1..Len(rows) :
          LET mine  == {i \in valid : batch[i].inscricao = rows[k].inscricao}
              lastI == CHOOSE i \in mine : \A i2 \in mine : i2 <= i
          IN /\ rows[k].name = batch[lastI].nome
             /\ rows[k].cidade = batch[lastI].campus
             /\ rows[k].unidade = batch[lastI].unidade
             /\ rows[k].university = batch[lastI].universidade
             /\ rows[k].chamada = batch[lastI].chamada
             /\ rows[k].cota = batch[lastI].cota
             /\ rows[k].course \in {batch[lastI].curso_limpo, batch[lastI].curso}

\* The files the service has written, each a list of records.
FilesOnDisk ==
    {cities[k] : k \in DOMAIN cities} \cup {chamadas[k] : k \in DOMAIN chamadas}
        \cup {full[k] : k \in DOMAIN full}

\* C13: the payload transform_for_supabase builds from a staged batch has
\* exactly one row per enrollment id that has a record with an enrollment id,
\* a name, a course and a city; no row comes from a record lacking one of
\* them; a row carries the values of the last such record of its id; and the
\* skipped count is the number of records lacking a required field.  The
\* payload transform_data builds from a file on disk has the same rows.
C13_OneRowPerValidId ==
    /\ \A j \in DOMAIN staging :
          LET batch == staging[j].students
              t     == transform_for_supabase(batch)
              valid == {i \in 1..Len(batch) :
                          /\ batch[i].inscricao \notin {NULL, ""}
                          /\ batch[i].nome # <<>>
                          /\ (batch[i].curso_limpo # <<>> \/ batch[i].curso # <<>>)
                          /\ batch[i].campus \notin {NULL, ""}}
          IN /\ OneRowPerValidId(batch, t.rows, valid)
             /\ t.skipped = Len(batch) - Cardinality(valid)
    /\ \A file \in FilesOnDisk :
          LET valid == {i \in 1..Len(file) :
                          /\ file[i].inscricao \notin {NULL, ""}
                          /\ file[i].nome # <<>>
                          /\ file[i].curso # <<>>
                          /\ file[i].campus \notin {NULL, ""}}
          IN OneRowPerValidId(file, transform_data(file), valid)

\* A confirmed batch in which one enrollment id has two records with all the
\* required fields, of different cities, and a record without a city, while
\* another record lacks its name: the payload has one row, of the later city,
\* and the full dump on disk is that batch.
C13_Witness ==
    \E j \in DOMAIN staging :
        LET batch == staging[j].students
            t     == transform_for_supabase(batch)
        IN /\ staging[j].status = "confirmed"
           /\ full[<<staging[j].university, staging[j].chamada>>] = batch
           /\ \E i1, i2, i3 \in 1..Len(batch) :
                 /\ i1 < i2
                 /\ batch[i1].inscricao = batch[i2].inscricao
                 /\ batch[i1].campus # NULL /\ batch[i2].campus # NULL
                 /\ batch[i1].campus # batch[i2].campus
                 /\ batch[i3].campus = NULL \/ batch[i3].nome = <<>>
                 /\ Len(t.rows) = 1 /\ t.rows[1].cidade = batch[i2].campus
                 /\ t.skipped = 1

\* The request r has been answered.
Answered(r) == reqs[r].pc = "done"

\* C14: when two confirm requests for two different jobs have both been
\* answered 200, every city file their batches share holds every enrollment
\* id of both groups, however their steps interleaved.
C14_NoLostUpdate ==
    \A r1, r2 \in ReqIds :
        (/\ r1 # r2
         /\ Answered(r1) /\ Answered(r2)
         /\ reqs[r1].code = 200 /\ reqs[r2].code = 200
         /\ reqs[r1].job # reqs[r2].job
         /\ staging[reqs[r1].job].university = staging[reqs[r2].job].university)
        => LET u  == staging[reqs[r1].job].university
               b1 == staging[reqs[r1].job].students
               b2 == staging[reqs[r2].job].students
           IN \A city \in GroupKeys(b1) \cap GroupKeys(b2) :
                 \A s \in {b1[i] : i \in 1..Len(b1)} \cup {b2[i] : i \in 1..Len(b2)} :
                     CityKey(s) = city => Occurrences(cities[<<u, city>>], s.inscricao) >= 1

\* C18: when two confirm requests for one staged job id have both been
\* answered, one was answered 200 and the other 409, and the job's merge has
\* run once, however their steps interleaved.
C18_MergeRunsOnce ==
    \A r1, r2 \in ReqIds :
        (/\ r1 # r2
         /\ Answered(r1) /\ Answered(r2)
         /\ reqs[r1].job = reqs[r2].job
         /\ reqs[r1].code # 404 /\ reqs[r2].code # 404)
        => /\ {reqs[r1].code, reqs[r2].code} = {200, 409}
           /\ merges[reqs[r1].job] = 1

\* C15: staging holds an entry only for a job that is still pending: no
\* entry for a job whose confirm has completed, none for a job that was
\* cancelled, so the entries are never more than the jobs created and neither
\* confirmed nor cancelled.
C15_StagingHoldsOnlyPending ==
    /\ \A j \in JobIds : (hist[j].confirmed \/ hist[j].cancelled) => j \notin DOMAIN staging
    /\ Cardinality(DOMAIN staging)
          <= Cardinality({j \in JobIds : /\ hist[j].created
                                         /\ ~hist[j].confirmed
                                         /\ ~hist[j].cancelled})

\* The raw course carries the reassignment marker.
HasMarker(curso) == \E t \in 1..Len(curso) : curso[t] = "REMANEJADO"

\* C16: every classified record says it is reassigned exactly when its raw
\* course carries the marker REMANEJADO: the records staged by /api/parse,
\* the records confirm wrote to disk, the rows it sent to the remote table,
\* and the records process_campus_classification returned.
C16_ReassignedIffMarker ==
    /\ \A j \in DOMAIN staging : \A i \in 1..Len(staging[j].students) :
          LET s == staging[j].students[i]
          IN /\ (s.remanejado = "true") <=> HasMarker(s.curso)
             /\ SupabaseRow(s).remanejado <=> HasMarker(s.curso)
    /\ \A file \in FilesOnDisk : \A i \in 1..Len(file) :
          (file[i].remanejado = "true") <=> HasMarker(file[i].curso)
    /\ \A i \in 1..Len(script.output) :
          (script.output[i].remanejado = "true") <=> HasMarker(script.output[i].curso)

\* C17: the clean course the script stores is a fixed point of the four
\* normalisation steps: normalising it again returns it unchanged, whatever
\* the raw course was, several closing parentheticals or a parenthetical
\* before "- Licenciatura" included.
C17_NormalizationIdempotent ==
    \A i \in 1..Len(script.output) :
        curso_visual_limpo(script.output[i].curso_limpo) = script.output[i].curso_limpo

\* C19: a run of process_campus_classification on an input file it has
\* already processed into the same output directory leaves every cumulative
\* city file as it was, with no enrollment id twice in any of them.
C19_SecondRunChangesNothing ==
    [][(script.runs >= 1 /\ script'.runs = script.runs + 1)
          => /\ cities' = cities
             /\ \A k \in DOMAIN cities : \A i \in 1..Len(cities'[k]) :
                   Occurrences(cities'[k], cities'[k][i].inscricao) = 1]_vars

====
